---- MODULE Spec2Model ----
(***************************************************************************)
(* The form-field layer of frontend/app/components/custom-ui/form.tsx: the *)
(* SubmitButton, the TextField and the CurrencyField with its display      *)
(* state, its parser and its formatter.                                    *)
(*                                                                         *)
(* Strings are sequences of one-character strings; the two non-ASCII       *)
(* characters that Intl.NumberFormat('nb-NO') produces are written "NBSP"  *)
(* (U+00A0) and "U2212" (the minus sign U+2212).                           *)
(*                                                                         *)
(* A JavaScript value is a record [k, neg, mag]: k is "num", "NaN",        *)
(* "null", "undefined", "true" or "false"; a number is its sign bit and    *)
(* its magnitude counted in units of 10^-Scale (an exact decimal, so the   *)
(* binary rounding of a double is not modelled; -0 is).                    *)
(***************************************************************************)
EXTENDS Integers, Sequences, FiniteSets, TLC

\* Longest text the generated keystroke texts have.
MaxLen == 2

\* Most animation-frame callbacks that are queued at one time.
MaxFrames == 2

\* Decimal places a modelled number keeps: enough for every text of Texts.
Scale == MaxLen + 1

RECURSIVE Pow10(_)
Pow10(n) == IF n = 0 THEN 1 ELSE 10 * Pow10(n - 1)

Unit == Pow10(Scale)

---------------------------------------------------------------------------
(* JavaScript values *)

NaN == [k |-> "NaN", neg |-> FALSE, mag |-> 0]
Null == [k |-> "null", neg |-> FALSE, mag |-> 0]
Undefined == [k |-> "undefined", neg |-> FALSE, mag |-> 0]
JsTrue == [k |-> "true", neg |-> FALSE, mag |-> 0]
JsFalse == [k |-> "false", neg |-> FALSE, mag |-> 0]
Num(neg, mag) == [k |-> "num", neg |-> neg, mag |-> mag]

\* n hundredths as a number, negative when n < 0.
Cents(n) == Num(n < 0, (IF n < 0 THEN -n ELSE n) * (Unit \div 100))

\* n thousandths as a number.
Mills(n) == Num(n < 0, (IF n < 0 THEN -n ELSE n) * (Unit \div 1000))

Zero == Num(FALSE, 0)
NegZero == Num(TRUE, 0)

\* ToBoolean: false, 0, -0, NaN, null and undefined are falsy.
Truthy(v) == v.k = "true" \/ (v.k = "num" /\ v.mag # 0)

Not(v) == IF Truthy(v) THEN JsFalse ELSE JsTrue

\* a ?? b
Nullish(a, b) == IF a \in {Null, Undefined} THEN b ELSE a

\* a === b on field values: NaN differs from itself, -0 equals 0.
StrictEq(a, b) ==
  /\ a.k = b.k
  /\ a.k # "NaN"
  /\ a.k = "num" => a.mag = b.mag /\ (a.mag # 0 => a.neg = b.neg)

\* Object.is(a, b), the comparison of a hook's dependencies.
ObjectIs(a, b) == a = b

---------------------------------------------------------------------------
(* Strings *)

Digits == {"0", "1", "2", "3", "4", "5", "6", "7", "8", "9"}

DigitOf(c) ==
  CASE c = "0" -> 0 [] c = "1" -> 1 [] c = "2" -> 2 [] c = "3" -> 3
    [] c = "4" -> 4 [] c = "5" -> 5 [] c = "6" -> 6 [] c = "7" -> 7
    [] c = "8" -> 8 [] c = "9" -> 9

CharOf(d) == <<"0", "1", "2", "3", "4", "5", "6", "7", "8", "9">>[d + 1]

RECURSIVE DigitsToNat(_)
DigitsToNat(s) ==
  IF s = <<>> THEN 0
  ELSE 10 * DigitsToNat(SubSeq(s, 1, Len(s) - 1)) + DigitOf(s[Len(s)])

RECURSIVE NatToDigits(_)
NatToDigits(n) ==
  IF n < 10 THEN <<CharOf(n)>>
  ELSE Append(NatToDigits(n \div 10), CharOf(n % 10))

\* n written with exactly w digits (n < 10^w).
RECURSIVE Padded(_, _)
Padded(n, w) ==
  IF w = 0 THEN <<>> ELSE Append(Padded(n \div 10, w - 1), CharOf(n % 10))

RECURSIVE StripTrailingZeros(_)
StripTrailingZeros(s) ==
  IF s # <<>> /\ s[Len(s)] = "0"
  THEN StripTrailingZeros(SubSeq(s, 1, Len(s) - 1))
  ELSE s

Count(s, c) == Cardinality({i \in 1..Len(s) : s[i] = c})

\* Index of the first c in s, Len(s) + 1 when there is none.
FirstIndex(s, c) ==
  IF \E i \in 1..Len(s) : s[i] = c
  THEN CHOOSE i \in 1..Len(s) : s[i] = c /\ \A j \in 1..(i - 1) : s[j] # c
  ELSE Len(s) + 1

\* Number(s) for a non-empty s over the characters 0-9 . and -:
\* StringNumericLiteral without exponent, NaN for everything else.
ToNumber(s) ==
  LET neg == s[1] = "-"
      body == IF neg THEN Tail(s) ELSE s
      dot == FirstIndex(body, ".")
      int == SubSeq(body, 1, dot - 1)
      frac == SubSeq(body, dot + 1, Len(body))
  IN  IF \/ Count(body, "-") > 0
         \/ Count(body, ".") > 1
         \/ Len(int) + Len(frac) = 0
      THEN NaN
      ELSE Num(neg, DigitsToNat(int) * Unit
                    + DigitsToNat(frac) * Pow10(Scale - Len(frac)))

\* Number.prototype.toString of a number or NaN (no exponent form arises
\* below 10^21 and above 10^-7).
NumberToString(v) ==
  IF v.k = "NaN" THEN <<"N", "a", "N">>
  ELSE LET frac == StripTrailingZeros(Padded(v.mag % Unit, Scale))
       IN  (IF v.neg /\ v.mag # 0 THEN <<"-">> ELSE <<>>)
           \o NatToDigits(v.mag \div Unit)
           \o (IF frac = <<>> THEN <<>> ELSE <<".">> \o frac)

---------------------------------------------------------------------------
(* CurrencyField: formatter and parsers *)

\* minimumFractionDigits and maximumFractionDigits of the formatter.
FractionDigits == 2

\* Digits in groups of three from the right, separated by U+00A0.
RECURSIVE Grouped(_)
Grouped(s) ==
  IF Len(s) <= 3 THEN s
  ELSE Grouped(SubSeq(s, 1, Len(s) - 3)) \o <<"NBSP">>
       \o SubSeq(s, Len(s) - 2, Len(s))

\* new Intl.NumberFormat('nb-NO', {style: 'currency', currency: 'NOK',
\* minimumFractionDigits: 2, maximumFractionDigits: 2}).format(v) for a
\* number v: rounded half away from zero to two decimals, the sign of a
\* negative number (and of -0) written U+2212, "1 234,56 kr".
IntlFormat(v) ==
  IF v.k # "num" THEN <<"N", "a", "N", "NBSP", "k", "r">>
  ELSE LET step == Pow10(Scale - FractionDigits)
           q == v.mag \div step
           r == v.mag % step
           hundredths == IF 2 * r >= step THEN q + 1 ELSE q
           whole == hundredths \div Pow10(FractionDigits)
           part == hundredths % Pow10(FractionDigits)
       IN  (IF v.neg THEN <<"U2212">> ELSE <<>>)
           \o Grouped(NatToDigits(whole))
           \o <<",">> \o Padded(part, FractionDigits)
           \o <<"NBSP", "k", "r">>

\* isNaN(value): ToNumber(value) is NaN; null converts to 0.
IsNaN(v) == v.k \in {"NaN", "undefined"}

\* formatCurrency of form.tsx.
formatCurrency(value) ==
  IF IsNaN(value) \/ value = Null THEN <<>>
  ELSE IntlFormat(value)

\* value.replace(/,/g, '.')
ReplaceCommas(s) == [i \in 1..Len(s) |-> IF s[i] = "," THEN "." ELSE s[i]]

IsNumericChar(c) == c \in Digits \cup {".", "-"}

\* value.replace(/[^0-9.-]/g, '')
StripNonNumeric(s) == SelectSeq(s, IsNumericChar)

\* A parser without the default of 0 for a text that cleans to nothing.
parseNumber_NaNWhenEmpty(value) ==
  LET normalizedValue == ReplaceCommas(value)
      cleanValue == StripNonNumeric(normalizedValue)
  IN  IF cleanValue # <<>> THEN ToNumber(cleanValue) ELSE NaN

\* parseNumber of form.tsx.
parseNumber(value) ==
  LET normalizedValue == ReplaceCommas(value)
      cleanValue == StripNonNumeric(normalizedValue)
  IN  IF cleanValue # <<>> THEN ToNumber(cleanValue) ELSE Zero

\* parseCurrency of the second copy of the component file:
\* Number(cleaned) || 0, with Number('') = 0.
parseCurrency(value) ==
  LET cleaned == StripNonNumeric(value)
      n == IF cleaned = <<>> THEN Zero ELSE ToNumber(cleaned)
  IN  IF Truthy(n) THEN n ELSE Zero

\* formatCurrency of the second copy: the formatter without a guard
\* (null converts to 0, undefined to NaN).
formatCurrencyPlain(value) ==
  IF value = Null THEN IntlFormat(Zero) ELSE IntlFormat(value)

\* The text a mounted, unfocused field is given by the state initializer
\* and by the deferred resync: field.state.value ? formatCurrency(...) : ''.
FormattedOrEmpty(v) == IF Truthy(v) THEN formatCurrency(v) ELSE <<>>

---------------------------------------------------------------------------
(* Inputs *)

Alphabet == {"1", "5", ",", ".", "-"}

RECURSIVE SeqsUpTo(_)
SeqsUpTo(n) ==
  IF n = 0 THEN {<<>>}
  ELSE LET shorter == SeqsUpTo(n - 1)
       IN  shorter \cup {Append(s, c) : s \in shorter, c \in Alphabet}

SampleTexts ==
  { <<"1", ",", "2", "3", "4", ".", "5", "6">>,
    <<"1", "2", "3", "4", ".", "5", "6">>,
    <<"1", ".", "0", "0", "5">>,
    <<"-", "1", ".", "5">>,
    <<"1", ".", "2", ".", "3">>,
    <<"k", "r">> }

\* The texts a change event can carry (e.target.value).
Texts == SeqsUpTo(MaxLen) \cup SampleTexts

\* The values the form engine can hold for the field before mount, and
\* set from outside the component (reset, setFieldValue).
EngineValues ==
  {Undefined, Null, NaN, Zero, Cents(500), Cents(123456), Cents(-150)}

\* The caller's loading prop: true, false or absent.
LoadingProps == {JsTrue, JsFalse, Undefined}

\* A Location object {longitude, latitude}, in whole degrees.
Loc(lng, lat) == [k |-> "location", longitude |-> lng, latitude |-> lat]

\* const DEFAULT_COORDINATES = { longitude: 0, latitude: 0 }
DEFAULT_COORDINATES == Loc(0, 0)

\* The default of MapField's zoom prop.
DefaultZoom == 4

\* event.lngLat of the drag events: the positions a marker is dragged to.
DragLngs == {0, 10}
DragLats == {0, 60}

\* The coordinates prop a caller passes; Undefined when it passes none.
CallerCoordinates == {Undefined, Loc(10, 60)}

\* The location values the form engine holds without a drag: the default
\* values of a page and the values a reset writes.
EngineLocations == {Undefined, Null, Loc(-74, 40)}

\* The views a user brings the map to by panning and zooming it.
MapViews ==
  [longitude : DragLngs, latitude : DragLats,
   zoom : {DefaultZoom, DefaultZoom + 1}]

\* A JavaScript string held by a select binding.
Str(s) == [k |-> "string", s |-> s]

\* The values of SelectField's options prop.
OptionValues == {Str("rock"), Str("sand")}

\* The select values the form engine holds without a user's selection.
EngineSelections == {Undefined, Null, Str("rock")}

\* The caller's required prop: true, false or absent.
RequiredProps == {JsTrue, JsFalse, Undefined}

\* An error object of the form engine: it carries a message string.
Err(m) == [message |-> m]

\* The error lists the form engine publishes in field.state.meta.errors.
ErrorLists ==
  {<<>>, <<Err("Required")>>, <<Err("Required"), Err("Too short")>>,
   <<Err("Too short"), Err("Required")>>}

\* The field components of the registry.
FieldComponents ==
  {"TextField", "NumberField", "TextAreaField", "MapField", "CurrencyField",
   "SelectField"}

---------------------------------------------------------------------------
(* State *)

VARIABLES
  isSubmitting,   \* form state flag
  isPristine,     \* form state flag
  isValidating,   \* form state flag
  loading,        \* SubmitButton's loading prop
  textValue,      \* TextField: field.state.value
  textTouched,    \* TextField: field.handleBlur has been called
  phase,          \* CurrencyField: "unmounted", "mounted" or "crashed"
  value,          \* CurrencyField: field.state.value, the canonical value
  displayValue,   \* CurrencyField: the displayValue state
  focused,        \* CurrencyField: document.activeElement === inputRef.current
  pendingFrames,  \* CurrencyField: requestAnimationFrame callbacks not yet run
  isTouched,      \* CurrencyField: field.handleBlur has been called
  rawValue,       \* CurrencyField: text of the last change event since the
                  \* input gained focus, while the value it wrote stands
  changedOutside, \* CurrencyField: the value was last replaced from outside
                  \* while the input was unfocused, and no focus came since
  rendered,       \* the field components the page's form renders
  errors,         \* BaseField: field.state.meta.errors of the rendered field
  coordinates,    \* MapField: the caller's coordinates prop, or Undefined
  mapView,        \* MapField: the view (centre and zoom) the map shows
  locValue,       \* MapField: field.state.value
  required,       \* SelectField: the caller's required prop, or Undefined
  selectValue,    \* SelectField: field.state.value
  numberValue,    \* NumberField: field.state.value
  areaValue,      \* TextAreaField: field.state.value
  blurred         \* NumberField, TextAreaField: those whose field.handleBlur
                  \* has been called

formVars == <<isSubmitting, isPristine, isValidating, loading>>
textVars == <<textValue, textTouched>>
currencyVars ==
  <<phase, value, displayValue, focused, pendingFrames, isTouched, rawValue,
    changedOutside>>
fieldVars ==
  <<rendered, errors, coordinates, mapView, locValue, required, selectValue,
    numberValue, areaValue, blurred>>
vars == <<formVars, textVars, currencyVars, fieldVars>>

\* rawValue when no keystroke stands.
NoText == <<"none">>

Init ==
  /\ isSubmitting = JsFalse
  /\ isPristine = JsTrue
  /\ isValidating = JsFalse
  /\ loading = Undefined
  /\ textValue = <<>>
  /\ textTouched = FALSE
  /\ phase = "unmounted"
  /\ value \in EngineValues
  /\ displayValue = <<>>
  /\ focused = FALSE
  /\ pendingFrames = 0
  /\ isTouched = FALSE
  /\ rawValue = NoText
  /\ changedOutside = FALSE
  /\ rendered = {"TextField", "CurrencyField"}
  /\ errors = <<>>
  /\ coordinates = Undefined
  /\ mapView = [longitude |-> DEFAULT_COORDINATES.longitude,
                latitude |-> DEFAULT_COORDINATES.latitude,
                zoom |-> DefaultZoom]
  /\ locValue = Undefined
  /\ required = Undefined
  /\ selectValue = Undefined
  /\ numberValue = Undefined
  /\ areaValue = <<>>
  /\ blurred = {}

---------------------------------------------------------------------------
(* SubmitButton *)

\* The disabled prop:  isSubmitting ?? isPristine ?? isValidating ?? loading
DisabledProp ==
  Nullish(isSubmitting, Nullish(isPristine, Nullish(isValidating, loading)))

\* The rendered button is disabled.
Disabled == Truthy(DisabledProp)

\* The button renders <Spinner/> instead of its children.
ShowsSpinner == Truthy(isSubmitting) \/ Truthy(isValidating) \/ Truthy(loading)

\* The form engine changes one of the flags the button subscribes to.
SetSubmitting ==
  /\ isSubmitting' = Not(isSubmitting)
  /\ UNCHANGED <<isPristine, isValidating, loading, textVars, currencyVars, fieldVars>>

SetPristine ==
  /\ isPristine' = Not(isPristine)
  /\ UNCHANGED <<isSubmitting, isValidating, loading, textVars, currencyVars, fieldVars>>

SetValidating ==
  /\ isValidating' = Not(isValidating)
  /\ UNCHANGED <<isSubmitting, isPristine, loading, textVars, currencyVars, fieldVars>>

\* The caller renders the button with another loading prop.
SetLoading ==
  /\ \E l \in LoadingProps \ {loading} : loading' = l
  /\ UNCHANGED <<isSubmitting, isPristine, isValidating, textVars, currencyVars, fieldVars>>

---------------------------------------------------------------------------
(* TextField *)

\* onChange: field.handleChange(e.target.value)
TextChange ==
  /\ \E t \in Texts : textValue' = t
  /\ UNCHANGED <<textTouched, formVars, currencyVars, fieldVars>>

\* onBlur: field.handleBlur
TextBlur ==
  /\ textTouched' = TRUE
  /\ UNCHANGED <<textValue, formVars, currencyVars, fieldVars>>

---------------------------------------------------------------------------
(* CurrencyField *)

\* First render and its effect. The state initializer calls formatCurrency
\* when the value is truthy, before the const formatCurrency of the
\* component body is initialised: that render throws. Otherwise the display
\* starts empty and the effect, which finds the input unfocused, requests
\* an animation frame.
Mount ==
  /\ phase = "unmounted"
  /\ IF Truthy(value)
     THEN /\ phase' = "crashed"
          /\ UNCHANGED <<displayValue, pendingFrames>>
     ELSE /\ phase' = "mounted"
          /\ displayValue' = <<>>
          /\ pendingFrames' = pendingFrames + 1
  /\ UNCHANGED <<value, focused, isTouched, rawValue, changedOutside,
                 formVars, textVars, fieldVars>>


\* A focus handler that writes the number it displays back to the form.
Focus_WritesValue ==
  /\ phase = "mounted"
  /\ ~focused
  /\ focused' = TRUE
  /\ displayValue' = NumberToString(Nullish(value, Zero))
  /\ value' = Nullish(value, Zero)
  /\ rawValue' = NoText
  /\ changedOutside' = FALSE
  /\ UNCHANGED <<phase, pendingFrames, isTouched, formVars, textVars, fieldVars>>

\* handleFocus
Focus ==
  /\ phase = "mounted"
  /\ ~focused
  /\ focused' = TRUE
  /\ displayValue' = NumberToString(Nullish(value, Zero))
  /\ rawValue' = NoText
  /\ changedOutside' = FALSE
  /\ UNCHANGED <<phase, value, pendingFrames, isTouched, formVars, textVars, fieldVars>>

\* handleChange, and the effect its value change triggers (the input has
\* focus, so the effect requests nothing).
Change ==
  /\ phase = "mounted"
  /\ focused
  /\ \E t \in Texts :
       /\ rawValue' = t
       /\ displayValue' = t
       /\ value' = parseNumber(t)
  /\ UNCHANGED <<phase, focused, pendingFrames, isTouched, changedOutside,
                 formVars, textVars, fieldVars>>

\* A blur that formats by the rule of the initializer and the resync.
Blur_EmptyForZero ==
  /\ phase = "mounted"
  /\ focused
  /\ focused' = FALSE
  /\ isTouched' = TRUE
  /\ displayValue' = FormattedOrEmpty(value)
  /\ rawValue' = NoText
  /\ UNCHANGED <<phase, value, pendingFrames, changedOutside, formVars, textVars, fieldVars>>

\* handleBlur
Blur ==
  /\ phase = "mounted"
  /\ focused
  /\ focused' = FALSE
  /\ isTouched' = TRUE
  /\ displayValue' = formatCurrency(Nullish(value, Zero))
  /\ rawValue' = NoText
  /\ UNCHANGED <<phase, value, pendingFrames, changedOutside, formVars, textVars, fieldVars>>

\* An effect that requests no animation frame when the value is replaced
\* from outside.
ExternalChange_NoFrame ==
  /\ phase = "mounted"
  /\ \E v \in EngineValues :
       /\ ~ObjectIs(v, value)
       /\ value' = v
  /\ rawValue' = NoText
  /\ changedOutside' = ~focused
  /\ UNCHANGED <<phase, displayValue, focused, isTouched, pendingFrames,
                 formVars, textVars, fieldVars>>

\* The form engine replaces the value (reset, setFieldValue) and the
\* component re-renders; the effect runs because field.state.value changed,
\* and requests an animation frame when the input is not focused.
ExternalChange ==
  /\ phase = "mounted"
  /\ \E v \in EngineValues :
       /\ ~ObjectIs(v, value)
       /\ value' = v
  /\ IF focused
     THEN UNCHANGED pendingFrames
     ELSE /\ pendingFrames < MaxFrames
          /\ pendingFrames' = pendingFrames + 1
  /\ rawValue' = NoText
  /\ changedOutside' = ~focused
  /\ UNCHANGED <<phase, displayValue, focused, isTouched, formVars, textVars, fieldVars>>

\* The requestAnimationFrame callback of the effect: it reads
\* field.state.value when it runs, and does not look at the focus.
AnimationFrame ==
  /\ phase = "mounted"
  /\ pendingFrames > 0
  /\ pendingFrames' = pendingFrames - 1
  /\ displayValue' = FormattedOrEmpty(value)
  /\ UNCHANGED <<phase, value, focused, isTouched, rawValue, changedOutside,
                 formVars, textVars, fieldVars>>

---------------------------------------------------------------------------
(* BaseField *)

\* field.state.meta.errors.length > 0
HasErrors == Len(errors) > 0

\* The aria-invalid attribute BaseField passes to the wrapped input.
AriaInvalid == HasErrors

\* A message paragraph that shows the last error.
MessageContent_Last ==
  IF HasErrors THEN <<errors[Len(errors)].message>> ELSE <<>>

\* The content of the message paragraph, as the list of the texts it shows:
\*   errors.length > 0 && errors[0].message
MessageContent == IF HasErrors THEN <<errors[1].message>> ELSE <<>>

\* The form engine validates: it publishes another error list.
SetErrors ==
  /\ \E e \in ErrorLists \ {errors} : errors' = e
  /\ UNCHANGED <<rendered, coordinates, mapView, locValue, required,
                 selectValue, numberValue, areaValue, blurred, formVars,
                 textVars, currencyVars>>

---------------------------------------------------------------------------
(* NumberField and TextAreaField *)

\* Number(e.target.value) of an <input type='number'>, whose value is the
\* empty string whenever the typed text is no number.
NumberOfInput(t) ==
  LET n == IF t # <<>> /\ (\A i \in 1..Len(t) : IsNumericChar(t[i]))
           THEN ToNumber(t)
           ELSE NaN
  IN  IF n = NaN THEN Zero ELSE n

\* NumberField's onChange.
NumberChange ==
  /\ \E t \in Texts : numberValue' = NumberOfInput(t)
  /\ UNCHANGED <<rendered, errors, coordinates, mapView, locValue, required,
                 selectValue, areaValue, blurred, formVars, textVars,
                 currencyVars>>

\* NumberField's onBlur.
NumberBlur ==
  /\ blurred' = blurred \cup {"NumberField"}
  /\ UNCHANGED <<rendered, errors, coordinates, mapView, locValue, required,
                 selectValue, numberValue, areaValue, formVars, textVars,
                 currencyVars>>

\* TextAreaField's onChange.
AreaChange ==
  /\ \E t \in Texts : areaValue' = t
  /\ UNCHANGED <<rendered, errors, coordinates, mapView, locValue, required,
                 selectValue, numberValue, blurred, formVars, textVars,
                 currencyVars>>

\* TextAreaField's onBlur.
AreaBlur ==
  /\ blurred' = blurred \cup {"TextAreaField"}
  /\ UNCHANGED <<rendered, errors, coordinates, mapView, locValue, required,
                 selectValue, numberValue, areaValue, formVars, textVars,
                 currencyVars>>

---------------------------------------------------------------------------
(* MapField *)

\* The coordinates parameter:  coordinates = DEFAULT_COORDINATES
Coordinates ==
  IF coordinates = Undefined THEN DEFAULT_COORDINATES ELSE coordinates

\* The initialViewState the map is mounted with.
InitialViewState ==
  [longitude |-> Coordinates.longitude, latitude |-> Coordinates.latitude,
   zoom |-> DefaultZoom]

\* The marker's longitude with || in place of ??.
MarkerLongitude_Falsy ==
  IF locValue \in {Null, Undefined} \/ locValue.longitude = 0
  THEN Coordinates.longitude
  ELSE locValue.longitude

\* field.state.value?.longitude ?? coordinates.longitude
MarkerLongitude ==
  IF locValue \in {Null, Undefined}
  THEN Coordinates.longitude
  ELSE locValue.longitude

\* field.state.value?.latitude ?? coordinates.latitude
MarkerLatitude ==
  IF locValue \in {Null, Undefined}
  THEN Coordinates.latitude
  ELSE locValue.latitude

\* A marker drag that also centres the map on the marker.
MarkerDrag_Recenters(lng, lat) ==
  /\ locValue' = Loc(lng, lat)
  /\ mapView' = [mapView EXCEPT !.longitude = lng, !.latitude = lat]
  /\ UNCHANGED <<rendered, errors, coordinates, required, selectValue,
                 numberValue, areaValue, blurred, formVars, textVars,
                 currencyVars>>

\* onMarkerDrag, for a drag event with event.lngLat = {lng, lat}.
MarkerDrag(lng, lat) ==
  /\ locValue' = Loc(lng, lat)
  /\ UNCHANGED <<rendered, errors, coordinates, mapView, required,
                 selectValue, numberValue, areaValue, blurred, formVars,
                 textVars, currencyVars>>

\* The user pans or zooms the map: the map keeps its own view.
MapMove ==
  /\ \E v \in MapViews \ {mapView} : mapView' = v
  /\ UNCHANGED <<rendered, errors, coordinates, locValue, required,
                 selectValue, numberValue, areaValue, blurred, formVars,
                 textVars, currencyVars>>

\* The form sets the location from outside the component (a reset, a load).
LocationChange ==
  /\ \E v \in EngineLocations \ {locValue} : locValue' = v
  /\ UNCHANGED <<rendered, errors, coordinates, mapView, required,
                 selectValue, numberValue, areaValue, blurred, formVars,
                 textVars, currencyVars>>

---------------------------------------------------------------------------
(* SelectField *)

\* Truthiness of a select value: a string other than the empty one.
TruthyString(v) == v.k = "string" /\ v.s # ""

\* The required parameter:  required = true
Required == IF required = Undefined THEN JsTrue ELSE required

\* A clear button rendered for required selects only.
ClearOffered_WhenRequired == Truthy(Required) /\ TruthyString(selectValue)

\* The clear button is rendered:  !required && field.state.value
ClearOffered == Truthy(Not(Required)) /\ TruthyString(selectValue)

\* onValueChange, when the user picks an option of the list.
SelectOption ==
  /\ \E o \in OptionValues : selectValue' = o
  /\ UNCHANGED <<rendered, errors, coordinates, mapView, locValue, required,
                 numberValue, areaValue, blurred, formVars, textVars,
                 currencyVars>>

\* A clear button that also empties the error list.
SelectClear_DropsErrors ==
  /\ ClearOffered
  /\ selectValue' = Str("")
  /\ errors' = <<>>
  /\ UNCHANGED <<rendered, coordinates, mapView, locValue, required,
                 numberValue, areaValue, blurred, formVars, textVars,
                 currencyVars>>

\* The clear button's onClick:  field.handleChange('')
SelectClear ==
  /\ ClearOffered
  /\ selectValue' = Str("")
  /\ UNCHANGED <<rendered, errors, coordinates, mapView, locValue, required,
                 numberValue, areaValue, blurred, formVars, textVars,
                 currencyVars>>

\* The form sets the selection from outside the component.
SelectionChange ==
  /\ \E v \in EngineSelections \ {selectValue} : selectValue' = v
  /\ UNCHANGED <<rendered, errors, coordinates, mapView, locValue, required,
                 numberValue, areaValue, blurred, formVars, textVars,
                 currencyVars>>

---------------------------------------------------------------------------
(* Specifications *)

\* The form with its submit button and a text field.
Next ==
  \/ SetSubmitting
  \/ SetPristine
  \/ SetValidating
  \/ SetLoading
  \/ TextChange
  \/ TextBlur

Spec == Init /\ [][Next]_vars

\* One CurrencyField.
NextCurrency ==
  \/ Mount
  \/ Focus
  \/ Change
  \/ Blur
  \/ ExternalChange
  \/ AnimationFrame

SpecCurrency == Init /\ [][NextCurrency]_vars

\* A page with a MapField and a SelectField, as its caller configures them.
InitFields ==
  /\ isSubmitting = JsFalse
  /\ isPristine = JsTrue
  /\ isValidating = JsFalse
  /\ loading = Undefined
  /\ textValue = <<>>
  /\ textTouched = FALSE
  /\ phase = "unmounted"
  /\ value = Undefined
  /\ displayValue = <<>>
  /\ focused = FALSE
  /\ pendingFrames = 0
  /\ isTouched = FALSE
  /\ rawValue = NoText
  /\ changedOutside = FALSE
  /\ rendered = {"MapField", "SelectField"}
  /\ errors = <<>>
  /\ coordinates \in CallerCoordinates
  /\ mapView = InitialViewState
  /\ locValue \in EngineLocations
  /\ required \in RequiredProps
  /\ selectValue \in EngineSelections
  /\ numberValue = Undefined
  /\ areaValue = <<>>
  /\ blurred = {}

NextFields ==
  \/ \E lng \in DragLngs, lat \in DragLats : MarkerDrag(lng, lat)
  \/ MapMove
  \/ LocationChange
  \/ SelectOption
  \/ SelectClear
  \/ SelectionChange
  \/ SetErrors

SpecFields == InitFields /\ [][NextFields]_vars

\* A page whose form renders one field component of the registry; the
\* bindings of the other names hold their default values.
InitForm ==
  /\ rendered \in {{c} : c \in FieldComponents}
  /\ isSubmitting = JsFalse
  /\ isPristine = JsTrue
  /\ isValidating = JsFalse
  /\ loading = Undefined
  /\ textValue = <<>>
  /\ textTouched = FALSE
  /\ phase = "unmounted"
  /\ value \in (IF "CurrencyField" \in rendered
               THEN EngineValues
               ELSE {Undefined})
  /\ displayValue = <<>>
  /\ focused = FALSE
  /\ pendingFrames = 0
  /\ isTouched = FALSE
  /\ rawValue = NoText
  /\ changedOutside = FALSE
  /\ errors = <<>>
  /\ coordinates = Undefined
  /\ mapView = InitialViewState
  /\ locValue = Undefined
  /\ required = JsFalse
  /\ selectValue = Undefined
  /\ numberValue = Undefined
  /\ areaValue = <<>>
  /\ blurred = {}

NextForm ==
  \/ "TextField" \in rendered /\ (TextChange \/ TextBlur)
  \/ "NumberField" \in rendered /\ (NumberChange \/ NumberBlur)
  \/ "TextAreaField" \in rendered /\ (AreaChange \/ AreaBlur)
  \/ /\ "MapField" \in rendered
     /\ \/ \E lng \in DragLngs, lat \in DragLats : MarkerDrag(lng, lat)
        \/ MapMove
        \/ LocationChange
  \/ /\ "SelectField" \in rendered
     /\ (SelectOption \/ SelectClear \/ SelectionChange)
  \/ /\ "CurrencyField" \in rendered
     /\ (Mount \/ Focus \/ Change \/ Blur \/ AnimationFrame)
  \/ SetErrors

SpecForm == InitForm /\ [][NextForm]_vars

\* The browser runs every requested animation-frame callback.
LiveCurrency == SpecCurrency /\ WF_vars(AnimationFrame)

---------------------------------------------------------------------------
(* SubmitButton claims, under Spec *)

\* C1: whenever at least one of isSubmitting, isValidating and loading is
\* true, the button is disabled.
C1_DisabledWhenBusy ==
  (Truthy(isSubmitting) \/ Truthy(isValidating) \/ Truthy(loading)) => Disabled

\* C2: the button is disabled exactly when it shows the spinner in place of
\* its children.
C2_DisabledIffSpinner == Disabled <=> ShowsSpinner

\* C3: whenever isPristine is true the button is disabled.
C3_PristineDisables == Truthy(isPristine) => Disabled

---------------------------------------------------------------------------
(* CurrencyField claims, under SpecCurrency and LiveCurrency *)

\* C4: while the input has focus and a keystroke stands, the display is
\* exactly the text of that keystroke and the canonical value is its parse.
C4_EditingKeepsRaw ==
  (focused /\ rawValue # NoText) =>
    (displayValue = rawValue /\ value = parseNumber(rawValue))

\* C5: a blur leaves the canonical value as it is, calls the binding's
\* handleBlur, and sets the display to format(canonical value) whenever the
\* value is a number or NaN, as every value written by a keystroke is.
C5_BlurReformats ==
  [][(focused /\ ~focused') =>
       /\ value' = value
       /\ isTouched'
       /\ rawValue # NoText => value = parseNumber(rawValue)
       /\ value \notin {Null, Undefined} =>
            displayValue' = formatCurrency(value)]_vars

\* C5 witness: the text "1.005" was typed and the input then lost focus.
C5_Witness ==
  /\ phase = "mounted"
  /\ ~focused
  /\ isTouched
  /\ value = Mills(1005)
  /\ displayValue = <<"1", ",", "0", "1", "NBSP", "k", "r">>

\* C6: an animation-frame callback that runs while the input has focus
\* leaves the display as it is.
C6_FrameSparesFocusedInput ==
  [][(focused /\ pendingFrames' < pendingFrames) =>
       displayValue' = displayValue]_vars

\* C7 as stated: after a change from outside while unfocused, and as long
\* as no focus comes, the display equals format(value) once the requested
\* animation frames have run.
C7_ResyncShowsFormat ==
  (changedOutside /\ pendingFrames = 0) =>
    displayValue = formatCurrency(value)

\* C7 amended: after a change from outside while unfocused, and as long as
\* no focus comes, the display eventually is format(value) for a non-zero
\* number and the empty string for 0, NaN, null and undefined; it is so
\* whenever no animation frame is pending.
C7_ResyncShowsFormattedOrEmpty ==
  /\ [](changedOutside /\ pendingFrames = 0 =>
          displayValue = FormattedOrEmpty(value))
  /\ changedOutside ~>
       (~changedOutside \/ displayValue = FormattedOrEmpty(value))

\* C7 witness: the value was set to 5 from outside and the resync has run.
C7_Witness ==
  /\ changedOutside
  /\ pendingFrames = 0
  /\ value = Cents(500)
  /\ displayValue = <<"5", ",", "0", "0", "NBSP", "k", "r">>

\* C8: both copies of the parser yield 1234.56 for "1,234.56" and for
\* "1234.56".
C8_GroupCommaIgnored ==
  (focused /\ rawValue \in { <<"1", ",", "2", "3", "4", ".", "5", "6">>,
                            <<"1", "2", "3", "4", ".", "5", "6">> }) =>
    /\ value = Cents(123456)
    /\ parseCurrency(rawValue) = Cents(123456)

\* C9: for every typed text that parses to a number, parsing the formatted
\* parse gives the parse again, with the parser and formatter of either
\* copy of the component.
C9_RoundTrip ==
  (focused /\ rawValue # NoText) =>
    /\ value.k = "num" => StrictEq(parseNumber(formatCurrency(value)), value)
    /\ LET n == parseCurrency(rawValue)
       IN  StrictEq(parseCurrency(formatCurrencyPlain(n)), n)

\* C10: format(null) and format(NaN) are empty, and an unfocused field with
\* no resync pending displays the empty string whenever its value is null
\* or NaN.
C10_EmptyForNullAndNaN ==
  /\ formatCurrency(Null) = <<>>
  /\ formatCurrency(NaN) = <<>>
  /\ (phase = "mounted" /\ ~focused /\ pendingFrames = 0
      /\ value \in {Null, NaN}) => displayValue = <<>>

---------------------------------------------------------------------------
(* MapField, SelectField and BaseField claims *)

\* C11: a marker drag to {lng, lat} sets the bound value to exactly
\* {longitude: lng, latitude: lat} and leaves the map's view (centre and
\* zoom) as it was; no step that changes the field value, whether a drag or
\* a change by the form, moves the view.
C11_DragSetsValueOnly ==
  /\ [][\A lng \in DragLngs, lat \in DragLats :
          MarkerDrag(lng, lat) =>
            /\ locValue' = [k |-> "location", longitude |-> lng,
                            latitude |-> lat]
            /\ mapView' = mapView]_vars
  /\ [][locValue' # locValue => mapView' = mapView]_vars

\* The marker has been dragged away while the view stayed where the map was
\* mounted.
C11_Witness ==
  /\ locValue = Loc(10, 60)
  /\ coordinates = Undefined
  /\ mapView = [longitude |-> 0, latitude |-> 0, zoom |-> DefaultZoom]

\* C12: the marker is rendered at the bound value when there is one,
\* otherwise at the caller's coordinates, otherwise at (0, 0).
C12_MarkerPosition ==
  LET marker == Loc(MarkerLongitude, MarkerLatitude)
      noValue == locValue \in {Null, Undefined}
  IN  /\ ~noValue => marker = locValue
      /\ noValue /\ coordinates # Undefined => marker = coordinates
      /\ noValue /\ coordinates = Undefined => marker = Loc(0, 0)

\* A value at longitude 0 places the marker, although the caller gave
\* coordinates.
C12_Witness ==
  /\ locValue = Loc(0, 60)
  /\ coordinates = Loc(10, 60)
  /\ MarkerLongitude = 0

\* C13: with required false, whenever the bound value is a selected option
\* the clear button is offered, and every click on it sets the value to the
\* empty string, whatever was selected before.
C13_ClearEmptiesSelection ==
  /\ []((required = JsFalse /\ selectValue \in OptionValues) => ClearOffered)
  /\ [][SelectClear => selectValue' = [k |-> "string", s |-> ""]]_vars

\* The selection of an optional select has been cleared.
C13_Witness == required = JsFalse /\ selectValue = Str("") /\ ~ClearOffered

\* C14: BaseField shows no message when the error list is empty and exactly
\* the first error's message when it is not; the input is aria-invalid
\* exactly when the list is not empty.
C14_FirstErrorShown ==
  /\ errors = <<>> => MessageContent = <<>>
  /\ errors # <<>> => MessageContent = <<Head(errors).message>>
  /\ AriaInvalid <=> errors # <<>>

\* Two errors are held and the first one's message is shown.
C14_Witness ==
  /\ errors = <<Err("Too short"), Err("Required")>>
  /\ MessageContent = <<"Too short">>
  /\ AriaInvalid

---------------------------------------------------------------------------
(* The registry's field components and their bindings *)

\* The value of the binding a field component of the registry is bound to.
FieldValue(c) ==
  CASE c = "TextField" -> textValue
    [] c = "NumberField" -> numberValue
    [] c = "TextAreaField" -> areaValue
    [] c = "MapField" -> locValue
    [] c = "CurrencyField" -> value
    [] c = "SelectField" -> selectValue

---------------------------------------------------------------------------
(* CurrencyField claims: mount, focus, parser, display *)

\* C16: mounting a CurrencyField completes its first render without raising
\* an error, for every initial canonical value.
C16_MountNeverThrows == phase # "crashed"

\* C17: a focus sets the display to the plain numeric string of the
\* canonical value, "0" when the value is null or undefined, and leaves the
\* canonical value as it was; so does every blur.
C17_FocusShowsPlainNumber ==
  [][/\ (~focused /\ focused') =>
          /\ value' = value
          /\ displayValue' = IF value \in {Null, Undefined}
                             THEN <<"0">>
                             ELSE NumberToString(value)
     /\ (focused /\ ~focused') => value' = value]_vars

\* The input has focus, no key was pressed, and the display is the plain
\* number of the value 1234.56.
C17_Witness ==
  /\ focused
  /\ rawValue = NoText
  /\ value = Cents(123456)
  /\ displayValue = <<"1", "2", "3", "4", ".", "5", "6">>

\* C18: the parser turns every comma into a period, drops every character
\* other than digits, '.' and '-', and yields 0 when nothing remains: a
\* typed text without any digit, '.', ',' or '-' writes the value 0, and a
\* typed ",5" writes 0.5.
C18_NothingLeftParsesToZero ==
  (phase = "mounted" /\ rawValue # NoText) =>
    /\ (\A i \in 1..Len(rawValue) :
          rawValue[i] \notin Digits \cup {".", ",", "-"}) => value = Zero
    /\ rawValue = <<",", "5">> => value = Cents(50)

\* The text "kr" was typed and the value 0 was written.
C18_Witness ==
  /\ focused
  /\ rawValue = <<"k", "r">>
  /\ value = Zero

\* C19: the value a keystroke writes is a finite number, never NaN, for
\* every typed text.
C19_KeystrokeWritesNumber ==
  (phase = "mounted" /\ rawValue # NoText) => value.k = "num"

\* C20: whenever the input is unfocused and no animation frame is pending,
\* the display is the one the state initializer and the resync give for
\* the canonical value, whichever history led to that value.
C20_DisplayDeterminedByValue ==
  (phase = "mounted" /\ ~focused /\ pendingFrames = 0) =>
    displayValue = FormattedOrEmpty(value)

====
